---- MODULE Spec2Model ----
(***************************************************************************)
(* Model of the shutdown scheduler of rust-in-peace (src/src/app.rs): the  *)
(* yew component App, its four messages, the gloo Timeout it owns and the  *)
(* wall clock it reads.  Instants are milliseconds since local midnight of *)
(* day 0 (the resolution of the clock the component reads); the local UTC  *)
(* offset is taken as fixed.  Option<T> is a sequence of length 0 or 1.    *)
(***************************************************************************)
EXTENDS Integers, Sequences, FiniteSets, TLC

VARIABLES now, shutdown_time, timeout_handle, force_shutdown_counter,
          is_countdown_active, timers, crashed, shutdown_invoked,
          manual_triggers, target_entered, last

vars == <<now, shutdown_time, timeout_handle, force_shutdown_counter,
          is_countdown_active, timers, crashed, shutdown_invoked,
          manual_triggers, target_entered, last>>

\* ---------------------------------------------------------------- bounds
\* last calendar day the clock may reach
MaxDay == 1
\* manual "Shutdown Now" clicks followed in one run
MaxClicks == 4

\* ------------------------------------------------------------- constants
FORCE_SHUTDOWN_COUNTER == 3

SecMs == 1000
MinuteMs == 60 * SecMs
DayMs == 24 * 60 * MinuteMs
U8Mod == 256
\* u32: the most seconds whose milliseconds fit (4294967295 \div 1000), and
\* what (U32MaxSecs + 1) * 1000 wraps to (4294968000 - 2^32)
U32MaxSecs == 4294967
U32WrapRest == 704

HM(h, m) == (h * 60 + m) * MinuteMs

\* Option<T>
None == <<>>
Some(x) == <<x>>
IsSome(o) == Len(o) = 1
Unwrap(o) == o[1]

\* ------------------------------------------------------------ calendar
DateOf(t) == t \div DayMs
TimeOf(t) == t % DayMs
\* DateTime::with_time: same date, given time-of-day
WithTime(t, tod) == DateOf(t) * DayMs + tod
\* Duration::num_seconds: whole seconds, truncated toward zero
NumSeconds(d) == IF d >= 0 THEN d \div SecMs ELSE 0 - ((0 - d) \div SecMs)

\* ------------------------------------------------------------- inputs
\* times of day at which the clock is observed
TodGrid == {HM(14, 0), HM(14, 5) - 500, HM(14, 5), HM(23, 55)}
Grid == {d * DayMs + t : d \in 0..MaxDay, t \in TodGrid}

\* values of the time field, as sequences of characters
TimeInputs == { <<"1","3",":","5","9">>, <<"1","4",":","0","5">>,
                <<"2","5",":","9","9">>, <<"a","b","c">>, <<>> }
\* milliseconds that may pass between the two clock reads of one Set click
Latency == {0, 1}
\* the three preset controls
Presets == {10, 20, 30}

\* --------------------------------------------------------------- parsing
Digits == {"0", "1", "2", "3", "4", "5", "6", "7", "8", "9"}
DigitVal(c) ==
    CASE c = "0" -> 0 [] c = "1" -> 1 [] c = "2" -> 2 [] c = "3" -> 3
      [] c = "4" -> 4 [] c = "5" -> 5 [] c = "6" -> 6 [] c = "7" -> 7
      [] c = "8" -> 8 [] c = "9" -> 9

\* how many of the first `max` characters of s are digits (a numeric field
\* of the format takes one digit at least and `max` at most)
DigitRun(s, max) ==
    IF Len(s) >= 1 /\ s[1] \in Digits
    THEN IF max >= 2 /\ Len(s) >= 2 /\ s[2] \in Digits THEN 2 ELSE 1
    ELSE 0

NumberOf(s, n) == IF n = 1 THEN DigitVal(s[1])
                  ELSE 10 * DigitVal(s[1]) + DigitVal(s[2])

Err == [ok |-> FALSE, tod |-> 0]
Ok(t) == [ok |-> TRUE, tod |-> t]

\* NaiveTime::parse_from_str(s, "%H:%M"): hour field, ':' literal, minute
\* field, nothing after; hour in 0..23, minute in 0..59, seconds 0
ParseNaiveTime(s) ==
    LET nh == DigitRun(s, 2) IN
    IF nh = 0 THEN Err
    ELSE LET h == NumberOf(s, nh)
             r1 == SubSeq(s, nh + 1, Len(s))
         IN IF h > 23 \/ Len(r1) = 0 \/ r1[1] # ":" THEN Err
            ELSE LET r2 == SubSeq(r1, 2, Len(r1))
                     nm == DigitRun(r2, 2)
                 IN IF nm = 0 THEN Err
                    ELSE LET m == NumberOf(r2, nm) IN
                         IF m > 59 \/ Len(r2) > nm THEN Err
                         ELSE Ok(HM(h, m))

\* variant: the parsed time rolled to tomorrow when it is not after now
parse_shutdown_time_rolled(tod, t) ==
    IF WithTime(t, tod) <= t THEN WithTime(t, tod) + DayMs ELSE WithTime(t, tod)

\* App::parse_shutdown_time once the string has parsed: the parsed time of
\* day on today's date, in the local offset
parse_shutdown_time(tod, t) == WithTime(t, tod)

\* ---------------------------------------------------------------- timers
\* a live browser timer: [id, fire]; a Timeout handle holds the id
TimerIds == {t.id : t \in timers}
FreshId(ts, h) ==
    CHOOSE i \in 0..Cardinality(ts) + 1 :
        /\ i \notin {t.id : t \in ts}
        /\ (IsSome(h) => i # Unwrap(h))
        /\ \A j \in 0..i - 1 :
              j \in {t.id : t \in ts} \/ (IsSome(h) /\ j = Unwrap(h))

\* variant: the old handle is dropped without clearing its timer
CancelNothing(h, ts) == ts

\* variant: the test for a handle inverted
CancelInverted(h, ts) ==
    IF IsSome(h) THEN ts ELSE {t \in ts : FALSE}

\* Timeout::cancel on the handle taken out of timeout_handle: clears the
\* browser timer it names (nothing left to clear once it has fired)
CancelTimeout(h, ts) ==
    IF IsSome(h) THEN {t \in ts : t.id # Unwrap(h)} ELSE ts

\* ------------------------------------------------------------- messages
\* variant: the last confirmation click already shuts down
InvokesShutdownAtOne(counter, is_from_system) ==
    counter <= 1 \/ is_from_system

\* variant: the timer's message is gated by the counter like a click
InvokesShutdownCounterOnly(counter, is_from_system) == counter = 0

\* variant: the shutdown command is invoked at most once in a run
InvokesShutdownOnce(counter, is_from_system) ==
    (counter = 0 \/ is_from_system) /\ ~shutdown_invoked

\* Msg::Shutdown(is_from_system): whether the shutdown command is invoked
InvokesShutdown(counter, is_from_system) == counter = 0 \/ is_from_system

\* variant: the decrement not guarded by the test for 0 (u8 wraps)
CounterAlwaysDecremented(counter, is_from_system) ==
    IF is_from_system THEN counter ELSE (counter - 1 + U8Mod) % U8Mod

\* variant: a click clears the counter instead of counting down
CounterCleared(counter, is_from_system) ==
    IF counter = 0 \/ is_from_system THEN counter ELSE 0

\* Msg::Shutdown(is_from_system): force_shutdown_counter afterwards (u8)
CounterAfterShutdown(counter, is_from_system) ==
    IF counter = 0 \/ is_from_system THEN counter
    ELSE (counter - 1 + U8Mod) % U8Mod

\* variant: Duration::seconds in place of Duration::minutes
PredefinedTargetSeconds(t, m) == t + m * SecMs

\* Msg::PredefinedShutdownTime(m): Local::now() + Duration::minutes(m)
PredefinedTarget(t, m) == t + m * MinuteMs

\* variant: the day added whether or not the time has passed
NewTimeAlwaysTomorrow(current_time, target) ==
    WithTime(current_time, TimeOf(target)) + DayMs

\* Msg::SetShutdownTimer: the instant aimed at, from the first clock read
NewTime(current_time, target) ==
    LET new_time == WithTime(current_time, TimeOf(target)) IN
    IF current_time > new_time THEN new_time + DayMs ELSE new_time

\* variant: arming also resets the confirmation counter
set_shutdown_time_resetting(counter, timeout) ==
    [is_countdown_active |-> TRUE, timeout_handle |-> timeout,
     force_shutdown_counter |-> FORCE_SHUTDOWN_COUNTER]

\* Timeout::new(duration.num_seconds() as u32 * 1000, ..): the delay in ms
\* (the u32 product wraps past U32MaxSecs; written for a single wrap)
TimeoutMillis(secs) ==
    IF secs <= U32MaxSecs THEN secs * SecMs
    ELSE (secs - U32MaxSecs - 1) * SecMs + U32WrapRest

\* App::set_shutdown_time(Some(handle)): the fields after the call
set_shutdown_time(counter, timeout) ==
    [is_countdown_active |-> TRUE, timeout_handle |-> timeout,
     force_shutdown_counter |-> counter]

\* ---------------------------------------------------------- bookkeeping
\* what the latest event was and what it did (history, not program state)
\* op/arg: the message; at: the clock it read first; pre_counter: the counter
\* before it; invoked: calls of the shutdown command it made; timer: the
\* live timer it fired or cancelled; prev: the message handled just before
\* a "Set" click, when that was a preset or another "Set" click
Event(op, arg, at, pre, inv, timer, prev) ==
    [op |-> op, arg |-> arg, at |-> at, pre_counter |-> pre,
     invoked |-> inv, timer |-> timer, prev |-> prev]

\* -------------------------------------------------------------- initial
\* App::create at some instant of day 0
Init ==
    /\ now \in {t \in Grid : DateOf(t) = 0}
    /\ shutdown_time = Some(now)
    /\ timeout_handle = None
    /\ force_shutdown_counter = FORCE_SHUTDOWN_COUNTER
    /\ is_countdown_active = TRUE
    /\ timers = {}
    /\ crashed = FALSE
    /\ shutdown_invoked = FALSE
    /\ manual_triggers = 0
    /\ target_entered = FALSE
    /\ last = Event("create", <<>>, now, FORCE_SHUTDOWN_COUNTER, 0, None, "other")

\* -------------------------------------------------------------- actions
\* the wall clock moves on to a later observed instant
Tick ==
    /\ \E t \in Grid : t > now /\ now' = t
    /\ last' = Event("tick", <<>>, now', force_shutdown_counter, 0, None, "other")
    /\ UNCHANGED <<shutdown_time, timeout_handle, force_shutdown_counter,
                   is_countdown_active, timers, crashed, shutdown_invoked,
                   manual_triggers, target_entered>>

\* Msg::UpdateShutdownTime(time): the time field was edited
UpdateShutdownTime ==
    /\ ~crashed
    /\ \E time \in TimeInputs :
         LET r == ParseNaiveTime(time) IN
         /\ IF r.ok
            THEN /\ shutdown_time' = Some(parse_shutdown_time(r.tod, now))
                 /\ crashed' = FALSE
                 /\ target_entered' = TRUE
            ELSE \* .expect("Failed to parse time") panics
                 /\ shutdown_time' = shutdown_time
                 /\ crashed' = TRUE
                 /\ target_entered' = target_entered
         /\ last' = Event("UpdateShutdownTime", time, now,
                          force_shutdown_counter, 0, None, "other")
    /\ UNCHANGED <<now, timeout_handle, force_shutdown_counter,
                   is_countdown_active, timers, shutdown_invoked,
                   manual_triggers>>

\* variant: a preset click also cancels the pending countdown
PredefinedShutdownTimeCancelling ==
    /\ ~crashed
    /\ \E m \in Presets :
         /\ shutdown_time' = Some(PredefinedTarget(now, m))
         /\ target_entered' = TRUE
         /\ last' = Event("PredefinedShutdownTime", <<m>>, now,
                          force_shutdown_counter, 0, None, "other")
    /\ timers' = CancelTimeout(timeout_handle, timers)
    /\ timeout_handle' = None
    /\ UNCHANGED <<now, force_shutdown_counter, is_countdown_active,
                   crashed, shutdown_invoked, manual_triggers>>

\* Msg::PredefinedShutdownTime(m): a preset control was clicked
PredefinedShutdownTime ==
    /\ ~crashed
    /\ \E m \in Presets :
         /\ shutdown_time' = Some(PredefinedTarget(now, m))
         /\ target_entered' = TRUE
         /\ last' = Event("PredefinedShutdownTime", <<m>>, now,
                          force_shutdown_counter, 0, None, "other")
    /\ UNCHANGED <<now, timeout_handle, force_shutdown_counter,
                   is_countdown_active, timers, crashed, shutdown_invoked,
                   manual_triggers>>

\* Msg::SetShutdownTimer: "Set" was clicked
SetShutdownTimer ==
    /\ ~crashed
    /\ \E d \in Latency :
         LET live == CancelTimeout(timeout_handle, timers)
             current_time == now
             second_read == now + d
         IN
         /\ d > 0 => now \in Grid
         /\ now' = second_read
         /\ IF IsSome(shutdown_time)
            THEN LET new_time == NewTime(current_time, Unwrap(shutdown_time))
                     secs == NumSeconds(new_time - second_read)
                 IN IF secs > 0
                    THEN LET id == FreshId(live, None)
                             f == set_shutdown_time(force_shutdown_counter,
                                                    Some(id))
                         IN /\ timers' = live \cup
                                 {[id |-> id, fire |-> second_read + TimeoutMillis(secs)]}
                            /\ timeout_handle' = f.timeout_handle
                            /\ is_countdown_active' = f.is_countdown_active
                            /\ force_shutdown_counter' = f.force_shutdown_counter
                    ELSE /\ timers' = live
                         /\ timeout_handle' = None
                         /\ UNCHANGED <<is_countdown_active,
                                        force_shutdown_counter>>
            ELSE /\ timers' = live
                 /\ timeout_handle' = None
                 /\ UNCHANGED <<is_countdown_active, force_shutdown_counter>>
         /\ last' = Event("SetShutdownTimer", <<>>, current_time,
                          force_shutdown_counter, 0,
                          IF IsSome(timeout_handle)
                             /\ Unwrap(timeout_handle) \in TimerIds
                          THEN timeout_handle ELSE None,
                          IF last.op \in {"PredefinedShutdownTime",
                                          "SetShutdownTimer"}
                          THEN last.op ELSE "other")
    /\ UNCHANGED <<shutdown_time, crashed, shutdown_invoked, manual_triggers,
                   target_entered>>

\* Msg::Shutdown(is_from_system), shared by the button and the timer
Shutdown(is_from_system, fired) ==
    LET inv == InvokesShutdown(force_shutdown_counter, is_from_system) IN
    /\ shutdown_invoked' = (shutdown_invoked \/ inv)
    /\ force_shutdown_counter' =
           CounterAfterShutdown(force_shutdown_counter, is_from_system)
    /\ last' = Event("Shutdown", <<is_from_system>>, now,
                     force_shutdown_counter, IF inv THEN 1 ELSE 0, fired,
                     "other")

\* "Shutdown Now" was clicked: Msg::Shutdown(false)
ShutdownNow ==
    /\ ~crashed
    /\ manual_triggers < MaxClicks
    /\ manual_triggers' = manual_triggers + 1
    /\ Shutdown(FALSE, None)
    /\ UNCHANGED <<now, shutdown_time, timeout_handle, is_countdown_active,
                   timers, crashed, target_entered>>

\* a live timer has run out: its callback sends Msg::Shutdown(true)
TimeoutFires ==
    /\ ~crashed
    /\ \E t \in timers :
         /\ now >= t.fire
         /\ timers' = timers \ {t}
         /\ Shutdown(TRUE, Some(t.id))
    /\ UNCHANGED <<now, shutdown_time, timeout_handle, is_countdown_active,
                   crashed, manual_triggers, target_entered>>

Next ==
    \/ Tick
    \/ UpdateShutdownTime
    \/ PredefinedShutdownTime
    \/ SetShutdownTimer
    \/ ShutdownNow
    \/ TimeoutFires

Spec == Init /\ [][Next]_vars

\* time passes, and a live timer that has run out calls back (the browser's
\* event loop serves due timers)
FairSpec == Spec /\ WF_vars(Tick) /\ WF_vars(TimeoutFires)

TypeOK ==
    /\ now \in Nat
    /\ Len(shutdown_time) <= 1
    /\ Len(timeout_handle) <= 1
    /\ force_shutdown_counter \in 0..U8Mod - 1
    /\ is_countdown_active \in BOOLEAN
    /\ crashed \in BOOLEAN
    /\ shutdown_invoked \in BOOLEAN
    /\ manual_triggers \in 0..MaxClicks
    /\ target_entered \in BOOLEAN

\* ---------------------------------------------------------------- claims
IsSet == last.op = "SetShutdownTimer"
IsManual == last.op = "Shutdown" /\ last.arg = <<FALSE>>
IsForced == last.op = "Shutdown" /\ last.arg = <<TRUE>>
IsEdit == last.op = "UpdateShutdownTime"
\* a live timer aiming at instant x, up to the truncation to whole seconds
AimsAt(t, x) == x - SecMs < t.fire /\ t.fire <= x

\* C1 (as stated): from a fresh scheduler the first two "Shutdown Now"
\* clicks do not invoke the shutdown command, the third and the fourth do,
\* and the counter ends at 0.
C1_ThirdClickInvokes ==
    IsManual =>
        /\ manual_triggers \in {1, 2} => last.invoked = 0
        /\ manual_triggers \in {3, 4} =>
               last.invoked = 1 /\ force_shutdown_counter = 0

\* C1 (amended): from a fresh scheduler the first three "Shutdown Now"
\* clicks only count down (3 -> 2 -> 1 -> 0) without invoking the shutdown
\* command; the fourth click and every later one invokes it and leaves the
\* counter at 0.
C1_FourthClickInvokes ==
    IsManual =>
        /\ manual_triggers \in 1..3 =>
               /\ last.invoked = 0
               /\ force_shutdown_counter =
                      FORCE_SHUTDOWN_COUNTER - manual_triggers
        /\ manual_triggers >= 4 =>
               last.invoked = 1 /\ force_shutdown_counter = 0

C1_Witness == IsManual /\ manual_triggers = 4 /\ last.invoked = 1

\* C2: an edit of the time field to a malformed string ("25:99", "abc",
\* "") is absorbed: the component has not crashed and goes on handling
\* events.
C2_MalformedInputAbsorbed ==
    IsEdit /\ ~ParseNaiveTime(last.arg).ok => ~crashed

C4_ArmResetsCounter ==
    IsSet /\ IsSome(timeout_handle) =>
        force_shutdown_counter = FORCE_SHUTDOWN_COUNTER

\* C4 (amended): a "Set" click, arming or not, leaves the confirmation
\* counter at the value the manual clicks had brought it to.
C4_ArmKeepsCounter ==
    IsSet => force_shutdown_counter = last.pre_counter

C4_Witness ==
    /\ IsSet /\ IsSome(timeout_handle) /\ timers # {}
    /\ force_shutdown_counter = 1

\* C5: a countdown that fires invokes the shutdown command once, whatever
\* the confirmation counter is, leaves the counter as it was, and is no
\* longer live afterwards.
C5_ForcedFireInvokesOnce ==
    IsForced =>
        /\ last.invoked = 1
        /\ force_shutdown_counter = last.pre_counter
        /\ IsSome(last.timer) /\ Unwrap(last.timer) \notin TimerIds

C5_Witness == IsForced /\ last.pre_counter = 2 /\ last.invoked = 1

\* C6 (as stated): a valid "HH:MM" edit stores an instant strictly after
\* now with the entered time of day, on today's date when that time of day
\* is after now's and on tomorrow's when it is before or equal.
C6_StoredTargetInFuture ==
    IsEdit /\ ParseNaiveTime(last.arg).ok =>
        LET tod == ParseNaiveTime(last.arg).tod
            t == Unwrap(shutdown_time)
        IN /\ t > last.at
           /\ TimeOf(t) = tod
           /\ tod > TimeOf(last.at) => DateOf(t) = DateOf(last.at)
           /\ tod <= TimeOf(last.at) => DateOf(t) = DateOf(last.at) + 1

\* C6 (amended): a valid "HH:MM" edit stores the entered time of day on
\* today's date in every case, so the stored instant is after now exactly
\* when the entered time of day is after now's.
C6_StoredTargetToday ==
    IsEdit /\ ParseNaiveTime(last.arg).ok =>
        LET tod == ParseNaiveTime(last.arg).tod
            t == Unwrap(shutdown_time)
        IN /\ TimeOf(t) = tod
           /\ DateOf(t) = DateOf(last.at)
           /\ (t > last.at) <=> (tod > TimeOf(last.at))

C6_Witness ==
    /\ IsEdit /\ ParseNaiveTime(last.arg).ok
    /\ Unwrap(shutdown_time) < last.at
    /\ DateOf(Unwrap(shutdown_time)) = DateOf(last.at)

\* C7: after a "Set" click a countdown is live that aims at the target's
\* time of day on today's date when that instant is strictly after now,
\* and at the same time of day tomorrow when it is before or equal to now.
C7_ArmRollsOverUnlessAfterNow ==
    IsSet =>
        LET cand == WithTime(last.at, TimeOf(Unwrap(shutdown_time))) IN
        /\ cand > last.at => \E t \in timers : AimsAt(t, cand)
        /\ cand <= last.at => \E t \in timers : AimsAt(t, cand + DayMs)

\* C8: a "Set" click right after a preset click of m minutes arms a
\* countdown that fires m minutes after the preset click, within a
\* second, also across midnight.
C8_PresetThenArm ==
    IsSet /\ last.prev = "PredefinedShutdownTime" =>
        /\ \E m \in Presets :
               Unwrap(shutdown_time) = last.at + m * MinuteMs
        /\ IsSome(timeout_handle)
        /\ \E t \in timers :
               /\ t.id = Unwrap(timeout_handle)
               /\ AimsAt(t, Unwrap(shutdown_time))

C8_Witness ==
    /\ IsSet /\ last.prev = "PredefinedShutdownTime"
    /\ TimeOf(last.at) = HM(23, 55)
    /\ \E t \in timers : DateOf(t.fire) = DateOf(last.at) + 1

\* C9: a cancelled countdown is gone: every live countdown is the one the
\* current handle names, right after a "Set" click it aims at that click's
\* target, and a countdown that fires is the one armed last.
C9_OnlyLatestCountdownFires ==
    /\ \A t \in timers : timeout_handle = Some(t.id)
    /\ IsSet =>
           \A t \in timers :
               AimsAt(t, NewTime(last.at, Unwrap(shutdown_time)))
    /\ IsForced => last.timer = timeout_handle

C9_Witness ==
    /\ IsSet /\ IsSome(last.timer)
    /\ last.at = HM(14, 0)
    /\ timers = {[id |-> 0, fire |-> DayMs + HM(13, 59)]}

\* C10: the confirmation counter stays in 0..3, and a "Shutdown Now" click
\* at counter 0 invokes the shutdown command and leaves the counter at 0.
C10_CounterInRange ==
    /\ force_shutdown_counter \in 0..FORCE_SHUTDOWN_COUNTER
    /\ IsManual /\ last.pre_counter = 0 =>
           last.invoked = 1 /\ force_shutdown_counter = 0

C10_Witness == IsManual /\ last.pre_counter = 0 /\ last.invoked = 1

\* C11 (as stated): once the shutdown command has been invoked nothing
\* changes any more: no later event alters the target, the countdown or the
\* counter, and the command is not invoked a second time.
C11_ShutdownIsTerminal ==
    [][shutdown_invoked =>
          /\ UNCHANGED <<shutdown_time, timeout_handle, timers,
                         force_shutdown_counter>>
          /\ last'.invoked = 0]_vars

\* C11 (amended): invoking the shutdown command is not terminal for the
\* scheduler: it goes on handling events, and every later trigger that is
\* forced or is taken at counter 0 invokes the command again, leaving the
\* target, the handle and the counter as they were.
C11_ShutdownNotTerminal ==
    [][(/\ shutdown_invoked
        /\ last'.op = "Shutdown"
        /\ (last'.arg = <<TRUE>> \/ force_shutdown_counter = 0))
       => /\ last'.invoked = 1
          /\ UNCHANGED <<shutdown_time, timeout_handle,
                         force_shutdown_counter>>]_vars

\* the fourth click has invoked the command and the pending countdown
\* fires afterwards
C11_Witness == IsForced /\ manual_triggers = 4 /\ last.invoked = 1

\* C12: after every "Set" click exactly one countdown is pending, the one
\* the handle names: from Idle the scheduler becomes Armed, from Armed it
\* stays Armed, never back to Idle.
C12_ArmAlwaysArms ==
    IsSet =>
        /\ IsSome(timeout_handle)
        /\ Cardinality(timers) = 1
        /\ TimerIds = {Unwrap(timeout_handle)}

\* C13: an edit of the time field and a preset click leave the pending
\* countdown (its timer, its fire instant, its handle) and the confirmation
\* counter as they were.
C13_TargetChangeKeepsCountdown ==
    [][last'.op \in {"UpdateShutdownTime", "PredefinedShutdownTime"} =>
          UNCHANGED <<timers, timeout_handle, force_shutdown_counter>>]_vars

C13_Witness ==
    /\ last.op = "PredefinedShutdownTime"
    /\ force_shutdown_counter = 2
    /\ \E t \in timers :
           /\ timeout_handle = Some(t.id)
           /\ ~AimsAt(t, NewTime(now, Unwrap(shutdown_time)))

\* C15: a "Shutdown Now" click at a counter above 0 takes exactly 1 off the
\* counter, does not invoke the shutdown command, and leaves the target
\* and the pending countdown as they were.
C15_ManualTriggerCountsDown ==
    [][(/\ last'.op = "Shutdown" /\ last'.arg = <<FALSE>>
        /\ force_shutdown_counter > 0)
       => /\ force_shutdown_counter' = force_shutdown_counter - 1
          /\ last'.invoked = 0
          /\ shutdown_invoked' = shutdown_invoked
          /\ UNCHANGED <<shutdown_time, timers, timeout_handle>>]_vars

C15_Witness ==
    /\ IsManual /\ last.pre_counter = 2 /\ force_shutdown_counter = 1
    /\ last.invoked = 0
    /\ timers # {}

\* the last instant the clock reaches
Horizon == CHOOSE g \in Grid : \A h \in Grid : h <= g

\* C14: a pending countdown that runs out within the time followed is
\* eventually either fired, invoking the shutdown command, or cancelled by
\* a later "Set" click.
C14_ArmedCountdownFires ==
    (\E t \in timers : t.fire <= Horizon)
        ~> \/ IsForced /\ last.invoked = 1
           \/ IsSet /\ IsSome(last.timer)

\* C16: the target is set in every reachable state, and a "Set" click made
\* before any edit or preset arms a countdown for the time of day of
\* creation (today or tomorrow).
C16_TargetAlwaysSet ==
    /\ IsSome(shutdown_time)
    /\ IsSet /\ ~target_entered =>
           \E t \in timers, k \in {0, 1} :
               /\ timeout_handle = Some(t.id)
               /\ AimsAt(t, WithTime(last.at, TimeOf(Unwrap(shutdown_time)))
                               + k * DayMs)

\* C17: the delay of every countdown a "Set" click creates is a whole
\* number of seconds, at least 1 and at most 86400, so its milliseconds
\* fit 32 unsigned bits.
C17_DelayWithinOneDay ==
    IsSet /\ IsSome(timeout_handle) =>
        \E t \in timers :
            /\ t.id = Unwrap(timeout_handle)
            /\ (t.fire - now) % SecMs = 0
            /\ (t.fire - now) \div SecMs \in 1..(DayMs \div SecMs)
            /\ (t.fire - now) \div SecMs <= U32MaxSecs

C17_Witness ==
    /\ IsSet /\ IsSome(timeout_handle)
    /\ \E t \in timers :
           /\ t.id = Unwrap(timeout_handle)
           /\ t.fire - now >= 86000 * SecMs

====
